---- MODULE Spec2Model ----
(***************************************************************************)
(* git-chdiff / git-external-chdiff: the two command line entry points and *)
(* the temp-file janitor, as state machines.                               *)
(*                                                                         *)
(* Python str values are sequences of one-character strings.  What a      *)
(* subprocess pipe returns is a bytes object: it is kept apart from str    *)
(* by a type tag, because bytes.startswith(str) and bytes.endswith(str)    *)
(* raise TypeError in Python 3 (the only Python that parses the f-strings  *)
(* of these files).                                                        *)
(***************************************************************************)
EXTENDS Integers, Sequences, FiniteSets, TLC

\* ------------------------------------------------------------------ bounds
\* number of command line words after the program name (git-chdiff)
MaxArgs == 2
\* number of argv entries handed to git-external-chdiff
MaxProxyArgs == 7
\* number of lines a subprocess prints
MaxLines == 2
\* number of entries in TEMP_DIRECTORY when the janitor lists it
MaxEntries == 2

\* --------------------------------------------------------- python values
None == [isNone |-> TRUE]

Str(s) == [type |-> "str", s |-> s]
Bytes(s) == [type |-> "bytes", s |-> s]

\* the result of an expression: a value, or a raised exception
Ret(v) == [ok |-> TRUE, val |-> v]
Raise(e, l) == [ok |-> FALSE, exc |-> [type |-> e, line |-> l]]

NoExc == [type |-> "none", line |-> 0]

SeqStartsWith(s, p) == Len(s) >= Len(p) /\ SubSeq(s, 1, Len(p)) = p
SeqEndsWith(s, p) == Len(s) >= Len(p) /\ SubSeq(s, Len(s) - Len(p) + 1, Len(s)) = p

\* x.startswith(p) at source line l: TypeError when a bytes object is asked
\* about a str prefix
startswith(x, p, l) ==
    IF x.type # p.type THEN Raise("TypeError", l)
    ELSE Ret(SeqStartsWith(x.s, p.s))

\* x.endswith(p) at source line l
endswith(x, p, l) ==
    IF x.type # p.type THEN Raise("TypeError", l)
    ELSE Ret(SeqEndsWith(x.s, p.s))

\* seq.index(x): the first position of x (1-based here), 0 for ValueError
RECURSIVE IndexFrom(_, _, _)
IndexFrom(seq, x, i) ==
    IF i > Len(seq) THEN 0
    ELSE IF seq[i] = x THEN i
    ELSE IndexFrom(seq, x, i + 1)

Index(seq, x) == IndexFrom(seq, x, 1)

\* del(seq[i])
Del(seq, i) == SubSeq(seq, 1, i - 1) \o SubSeq(seq, i + 1, Len(seq))

\* ------------------------------------------------------- program constants
TEMP_FILE_SUFFIX == <<".", "t", "e", "m", "p">>
TEMP_FILE_PREFIX == <<"g", "i", "t", "-", "c", "h", "d", "i", "f", "f">>
TEMP_DIRECTORY == <<"/", "v", "a", "r", "/", "t", "m", "p">>

\* ------------------------------------------------- getopt.getopt (stdlib)
SHORTOPTS == <<"h", "r", ":", "w", "v">>
LONGOPTS == << <<"c", "l", "e", "a", "n">>,
               <<"h", "e", "l", "p">>,
               <<"r", "e", "v", "i", "s", "i", "o", "n", "=">>,
               <<"w", "a", "i", "t">>,
               <<"v", "e", "r", "b", "o", "s", "e">> >>

GetoptError == [ok |-> FALSE]

\* short_has_arg: 0 unknown option, 1 no argument, 2 takes an argument
RECURSIVE ShortHasArg(_, _)
ShortHasArg(opt, i) ==
    IF i > Len(SHORTOPTS) THEN 0
    ELSE IF opt = SHORTOPTS[i] /\ opt # ":"
         THEN (IF i < Len(SHORTOPTS) /\ SHORTOPTS[i + 1] = ":" THEN 2 ELSE 1)
    ELSE ShortHasArg(opt, i + 1)

\* do_shorts: the letters of one word "-xyz"
RECURSIVE DoShorts(_, _, _)
DoShorts(opts, optstring, args) ==
    IF optstring = <<>> THEN [ok |-> TRUE, opts |-> opts, args |-> args]
    ELSE LET opt == Head(optstring)
             rest == Tail(optstring)
             has == ShortHasArg(opt, 1)
         IN  IF has = 0 THEN GetoptError
             ELSE IF has = 2
             THEN IF rest = <<>>
                  THEN IF args = <<>> THEN GetoptError
                       ELSE DoShorts(Append(opts, [option |-> <<"-", opt>>, value |-> Head(args)]),
                                     <<>>, Tail(args))
                  ELSE DoShorts(Append(opts, [option |-> <<"-", opt>>, value |-> rest]),
                                <<>>, args)
             ELSE DoShorts(Append(opts, [option |-> <<"-", opt>>, value |-> <<>>]), rest, args)

\* long_has_args: the long options that start with opt
Possibilities(opt) == {i \in 1..Len(LONGOPTS) : SeqStartsWith(LONGOPTS[i], opt)}

\* do_longs: one word "--name" or "--name=value" (opt is the word without "--")
DoLongs(opts, word, args) ==
    LET eq == Index(word, "=")
        opt == IF eq = 0 THEN word ELSE SubSeq(word, 1, eq - 1)
        noarg == eq = 0
        optarg == SubSeq(word, eq + 1, Len(word))
        poss == Possibilities(opt)
        exact == \E i \in poss : LONGOPTS[i] = opt
        exactArg == \E i \in poss : LONGOPTS[i] = Append(opt, "=")
        only == CHOOSE i \in poss : TRUE
        uniq == LONGOPTS[only]
        uniqArg == uniq[Len(uniq)] = "="
        has_arg == IF exact THEN FALSE ELSE IF exactArg THEN TRUE ELSE uniqArg
        name == IF exact \/ exactArg THEN opt
                ELSE IF uniqArg THEN SubSeq(uniq, 1, Len(uniq) - 1) ELSE uniq
        option == <<"-", "-">> \o name
    IN  IF poss = {} THEN GetoptError
        ELSE IF ~exact /\ ~exactArg /\ Cardinality(poss) > 1 THEN GetoptError
        ELSE IF has_arg
        THEN IF noarg
             THEN IF args = <<>> THEN GetoptError
                  ELSE [ok |-> TRUE,
                        opts |-> Append(opts, [option |-> option, value |-> Head(args)]),
                        args |-> Tail(args)]
             ELSE [ok |-> TRUE,
                   opts |-> Append(opts, [option |-> option, value |-> optarg]),
                   args |-> args]
        ELSE IF ~noarg THEN GetoptError
        ELSE [ok |-> TRUE,
              opts |-> Append(opts, [option |-> option, value |-> <<>>]),
              args |-> args]

\* getopt.getopt(args, 'hr:wv', [...]): options up to the first word that is
\* no option
RECURSIVE Getopt(_, _)
Getopt(opts, args) ==
    IF args = <<>> \/ ~SeqStartsWith(Head(args), <<"-">>) \/ Head(args) = <<"-">>
    THEN [ok |-> TRUE, opts |-> opts, args |-> args]
    ELSE IF Head(args) = <<"-", "-">>
    THEN [ok |-> TRUE, opts |-> opts, args |-> Tail(args)]
    ELSE LET r == IF SeqStartsWith(Head(args), <<"-", "-">>)
                  THEN DoLongs(opts, SubSeq(Head(args), 3, Len(Head(args))), Tail(args))
                  ELSE DoShorts(opts, Tail(Head(args)), Tail(args))
         IN  IF r.ok THEN Getopt(r.opts, r.args) ELSE r

\* ------------------------------------------- git-chdiff: option processing
OPT_CLEAN == <<"-", "-", "c", "l", "e", "a", "n">>
OPT_H == <<"-", "h">>
OPT_HELP == <<"-", "-", "h", "e", "l", "p">>
OPT_R == <<"-", "r">>
OPT_REVISION == <<"-", "-", "r", "e", "v", "i", "s", "i", "o", "n">>
OPT_W == <<"-", "w">>
OPT_WAIT == <<"-", "-", "w", "a", "i", "t">>
OPT_V == <<"-", "v">>
OPT_VERBOSE == <<"-", "-", "v", "e", "r", "b", "o", "s", "e">>

\* the defaults main sets up: revision 'HEAD~0'
DEFAULT_REVISION == <<"H", "E", "A", "D", "~", "0">>

Defaults(av) ==
    [argv |-> av, should_clean |-> FALSE, revision |-> DEFAULT_REVISION,
     wait |-> FALSE, verbose |-> FALSE]

\* del(argv[argv.index(x)]) at source line l: ValueError when x is no word
\* of argv.  The result is the option state and the exception raised, if any.
DelWord(st, x, l) ==
    IF Index(st.argv, x) = 0
    THEN [st |-> st, exc |-> [type |-> "ValueError", line |-> l]]
    ELSE [st |-> [st EXCEPT !.argv = Del(st.argv, Index(st.argv, x))], exc |-> NoExc]

\* the body of "for option, value in opts" for one option
OneOption(st, o) ==
    IF o.option = OPT_CLEAN
    THEN DelWord([st EXCEPT !.should_clean = TRUE], o.option, 101)
    ELSE IF o.option \in {OPT_H, OPT_HELP}
    THEN [st |-> st, exc |-> [type |-> "Usage", line |-> 103]]
    ELSE IF o.option \in {OPT_R, OPT_REVISION}
    THEN LET d == DelWord([st EXCEPT !.revision = o.value], o.option, 106)
         IN  IF d.exc = NoExc THEN DelWord(d.st, o.value, 107) ELSE d
    ELSE IF o.option \in {OPT_W, OPT_WAIT}
    THEN DelWord([st EXCEPT !.wait = TRUE], o.option, 110)
    ELSE IF o.option \in {OPT_V, OPT_VERBOSE}
    THEN DelWord([st EXCEPT !.verbose = TRUE], o.option, 113)
    ELSE [st |-> st, exc |-> NoExc]

RECURSIVE OptionLoop(_, _, _)
OptionLoop(st, opts, i) ==
    IF i > Len(opts) THEN [st |-> st, exc |-> NoExc]
    ELSE LET r == OneOption(st, opts[i])
         IN  IF r.exc = NoExc THEN OptionLoop(r.st, opts, i + 1) ELSE r

\* lines 87-113: getopt, then the option loop; getopt.error becomes Usage
ParseOptions(av) ==
    LET g == Getopt(<<>>, Tail(av))
    IN  IF ~g.ok THEN [st |-> Defaults(av), exc |-> [type |-> "Usage", line |-> 95]]
        ELSE OptionLoop(Defaults(av), g.opts, 1)

\* ------------------------------------------------- git-chdiff: the file loop
LF == "\n"

\* os.path.normpath, on the paths used here: a leading "./" is dropped
RECURSIVE normpath(_)
normpath(p) ==
    IF Len(p) > 2 /\ SubSeq(p, 1, 2) = <<".", "/">>
    THEN normpath(SubSeq(p, 3, Len(p)))
    ELSE p

\* line.rstrip()
RECURSIVE rstrip(_)
rstrip(x) ==
    IF x.s # <<>> /\ x.s[Len(x.s)] \in {" ", LF, "\t"}
    THEN rstrip([x EXCEPT !.s = SubSeq(x.s, 1, Len(x.s) - 1)])
    ELSE x

\* line.split('   ')[-1]: what follows the last run of three spaces
RECURSIVE SplitLast(_, _)
SplitLast(s, i) ==
    IF i < 1 THEN s
    ELSE IF SubSeq(s, i, i + 2) = <<" ", " ", " ">> THEN SubSeq(s, i + 3, Len(s))
    ELSE SplitLast(s, i - 1)

\* lines 152-160: the first line that ends with the file name gives git_path
RECURSIVE FindGitPath(_, _, _)
FindGitPath(lines, i, nf) ==
    IF i > Len(lines) THEN Ret([found |-> FALSE, path |-> nf])
    ELSE LET line == rstrip(lines[i])
             e == endswith(line, Str(nf), 154)
         IN  IF ~e.ok THEN e
             ELSE IF e.val
             THEN Ret([found |-> TRUE, path |-> SplitLast(line.s, Len(line.s) - 2)])
             ELSE FindGitPath(lines, i + 1, nf)

\* p.stdout.readlines(): the lines of a pipe opened in binary mode
readlines(out) == [i \in 1..Len(out) |-> Bytes(out[i])]

OSErrorResult == [oserror |-> TRUE]

\* lines 132-162: what the "git status" step does with Popen's result r
\*   kind "raise"    an exception nothing catches
\*   kind "continue" the file is skipped
\*   kind "next"     on to the "git show" step with git_path
StatusStep(r, nf) ==
    IF r.oserror THEN [kind |-> "next", git_path |-> nf, msg |-> "Execution failed"]
    ELSE LET lines == readlines(r.out)
             first == startswith(lines[1], Str(<<"e", "r", "r", "o", "r", ":">>), 143)
             second == startswith(lines[1], Str(<<"#", " ">>), 146)
             path == FindGitPath(lines, 1, nf)
             found == IF path.ok
                      THEN [kind |-> "next", git_path |-> path.val.path,
                            msg |-> IF path.val.found THEN "git path" ELSE "none"]
                      ELSE [kind |-> "raise", exc |-> path.exc]
         IN  IF r.rc > 0
             THEN IF Len(lines) = 0
                  THEN [kind |-> "raise", exc |-> Raise("IndexError", 143).exc]
                  ELSE IF ~first.ok THEN [kind |-> "raise", exc |-> first.exc]
                  ELSE IF first.val THEN [kind |-> "continue", msg |-> "not in git repository"]
                  ELSE IF ~second.ok THEN [kind |-> "raise", exc |-> second.exc]
                  ELSE IF second.val THEN [kind |-> "continue", msg |-> "unchanged"]
                  ELSE found
             ELSE found

\* ''.join(lines) at line 188
RECURSIVE Concat(_, _)
Concat(lines, i) ==
    IF i > Len(lines) THEN <<>> ELSE lines[i].s \o Concat(lines, i + 1)

join(lines) ==
    IF \E i \in 1..Len(lines) : lines[i].type # "str" THEN Raise("TypeError", 188)
    ELSE Ret(Concat(lines, 1))

\* lines 165-190: what the "git show" step does with Popen's result r
\*   kind "raise"    an exception nothing catches
\*   kind "continue" the revision could not be fetched, the file is skipped
\*   kind "save"     mkstemp and write; content is what is written
\*   kind "next"     Popen failed: on to the chdiff step with temp_file None
ShowStep(r) ==
    IF r.oserror THEN [kind |-> "next", msg |-> "Execution failed"]
    ELSE LET lines == readlines(r.out)
             fatal == startswith(lines[1], Str(<<"f", "a", "t", "a", "l", ":">>), 176)
             error == startswith(lines[1], Str(<<"e", "r", "r", "o", "r", ":">>), 176)
             text == join(lines)
         IN  IF Len(lines) = 0
             THEN [kind |-> "raise", exc |-> Raise("IndexError", 176).exc]
             ELSE IF ~fatal.ok THEN [kind |-> "raise", exc |-> fatal.exc]
             ELSE IF fatal.val THEN [kind |-> "continue", msg |-> "problem getting revision"]
             ELSE IF ~error.ok THEN [kind |-> "raise", exc |-> error.exc]
             ELSE IF error.val THEN [kind |-> "continue", msg |-> "problem getting revision"]
             ELSE [kind |-> "save", text |-> text]

\* os.path.join(dir, name), and the name of a path made that way
join_path(dir, name) == dir \o <<"/">> \o name
basename(dir, path) == SubSeq(path, Len(dir) + 2, Len(path))

\* tempfile.mkstemp(TEMP_FILE_SUFFIX, TEMP_FILE_PREFIX, TEMP_DIRECTORY): the
\* name of the new file, rand being the random middle part
mkstemp(rand) == join_path(TEMP_DIRECTORY, TEMP_FILE_PREFIX \o rand \o TEMP_FILE_SUFFIX)

\* lines 193-199: the command line of the viewer; temp_file[1] raises
\* TypeError when temp_file is None
ChdiffCommand(w, tf, nf) ==
    IF tf = None THEN Raise("TypeError", 198)
    ELSE Ret([cmd |-> "chdiff", wait_flag |-> IF w THEN "--wait" ELSE "",
              a |-> tf.path, b |-> nf])

\* ------------------------------------------------------ the temp-file janitor
\* lines 55-62: the three tests an entry of TEMP_DIRECTORY passes before it
\* is removed; e is what the file system says about the entry
\*   e.isfile  os.path.isfile(normalized_file)
\*   e.uid     os.stat(normalized_file)[4]
\* (the same tests without the owner test)
ShouldRemoveAnyOwner(file_name, e, my_uid) ==
    /\ e.isfile
    /\ startswith(Str(file_name), Str(TEMP_FILE_PREFIX), 58).val

ShouldRemove(file_name, e, my_uid) ==
    /\ e.isfile
    /\ startswith(Str(file_name), Str(TEMP_FILE_PREFIX), 58).val
    /\ e.uid = my_uid

\* ------------------------------------------------------ git-external-chdiff
\* parse_external_diff_args: argv[2] and argv[5] (0-based), IndexError when
\* argv is too short
\* (the same with the positions counted from one: argv[1] and argv[4])
parse_external_diff_args_from_one(av) ==
    IF Len(av) < 3 THEN Raise("IndexError", 29)
    ELSE IF Len(av) < 6 THEN Raise("IndexError", 30)
    ELSE Ret([old_file |-> av[2], new_file |-> av[5]])

parse_external_diff_args(av) ==
    IF Len(av) < 3 THEN Raise("IndexError", 29)
    ELSE IF Len(av) < 6 THEN Raise("IndexError", 30)
    ELSE Ret([old_file |-> av[3], new_file |-> av[6]])

\* run_chdiff: the command handed to subprocess.run
run_chdiff_command(old, new, w) ==
    <<"chdiff", IF w THEN "--wait" ELSE "", old, new>>

\* ------------------------------------------------------------------- inputs
SeqsUpTo(S, n) == UNION {[1..m -> S] : m \in 0..n}

PROG == <<"g", "i", "t", "-", "c", "h", "d", "i", "f", "f">>
FILE_A == <<".", "/", "a">>

\* the words a git-chdiff command line is made of
Words ==
    {OPT_H, OPT_W, OPT_V, OPT_R, OPT_CLEAN, <<"-", "w", "v">>, FILE_A}

ChdiffArgvs == {<<PROG>> \o w : w \in SeqsUpTo(Words, MaxArgs)}

\* the argv git hands to the external diff program, of any length
ProxyArgvs == SeqsUpTo({<<"p">>, <<"q">>}, MaxProxyArgs)

ErrLine == <<"e", "r", "r", "o", "r", ":", " ", "x", LF>>
HashLine == <<"#", " ", "x", LF>>
ModLine(nf) == <<"m", ":", " ", " ", " ">> \o nf \o <<LF>>
FatalLine == <<"f", "a", "t", "a", "l", ":", " ", "x", LF>>
TextLine == <<"h", "i", LF>>

\* what "git status <path>" may print and return: for a tracked file some
\* lines of "# ..." and "...   <path>", for any other path anything at all
StatusResults(nf, tracked) ==
    {OSErrorResult} \cup
    {[oserror |-> FALSE, rc |-> rc, out |-> o] :
        rc \in {0, 1},
        o \in IF tracked
              THEN SeqsUpTo({HashLine, ModLine(nf)}, MaxLines) \ {<<>>}
              ELSE SeqsUpTo({ErrLine, HashLine, ModLine(nf)}, MaxLines)}

\* what the repository records for a file at the revision: nothing, or a
\* content (which may be empty, or begin with "fatal:")
NoContent == [exists |-> FALSE, out |-> <<>>]
Contents ==
    {[exists |-> TRUE, out |-> o] :
        o \in {<<>>, <<TextLine>>, <<TextLine, TextLine>>, <<FatalLine, TextLine>>}}

\* what "git show <revision>:<path>" prints: the content, or a fatal message
ShowResults(recorded) ==
    {OSErrorResult,
     [oserror |-> FALSE, rc |-> 0,
      out |-> IF recorded.exists THEN recorded.out ELSE <<FatalLine>>]}

\* what is true of the file at one position of the command line
Envs(i) ==
    {[pos |-> i, isfile |-> FALSE, tracked |-> FALSE, recorded |-> NoContent]} \cup
    {[pos |-> i, isfile |-> TRUE, tracked |-> t, recorded |-> c] :
        t \in BOOLEAN, c \in Contents \cup {NoContent}}

NoEnv == [pos |-> 0, isfile |-> FALSE, tracked |-> FALSE, recorded |-> NoContent]

\* the names of entries of TEMP_DIRECTORY
EntryNames ==
    {TEMP_FILE_PREFIX \o <<"q">> \o TEMP_FILE_SUFFIX,
     TEMP_FILE_PREFIX,
     <<"g", "i", "t", "-", "c", "h", "d", "i", "f">>,
     <<"x">> \o TEMP_FILE_PREFIX}

ME == "me"
Entries == [isfile : BOOLEAN, uid : {ME, "other"}]

\* the contents TEMP_DIRECTORY may have: at most MaxEntries entries
Dirs ==
    UNION {[N -> Entries] : N \in {S \in SUBSET EntryNames : Cardinality(S) <= MaxEntries}}

\* the orders os.listdir may give the entries in
Listings(d) ==
    {l \in [1..Cardinality(DOMAIN d) -> DOMAIN d] :
        \A i, j \in DOMAIN l : i # j => l[i] # l[j]}

\* -------------------------------------------------------------------- state
VARIABLES
    prog,             \* which script runs
    argv,             \* main's argv
    pc,               \* where the script is
    exitCode,         \* the exit status, -1 while running
    exc,              \* the exception nothing caught, if any
    cmdline,          \* the command line as it was given (argv loses words)
    should_clean, revision, wait, verbose,
    file_names, idx,  \* the file loop and its position (1-based)
    env,              \* what is true of the file being worked on
    normalized_file, git_path, temp_file,
    tmpdir,           \* TEMP_DIRECTORY: entry name -> [isfile, uid]
    tmpdir0,          \* TEMP_DIRECTORY as it was when the janitor listed it
    listing, k,       \* files_in_tmp and the janitor's position in it
    fault,            \* the call that failed in the janitor, if any
    calls,            \* the subprocesses started, in order
    created,          \* the shadow files made: [pos, path, text]
    unlinked,         \* the paths os.unlink removed
    printed,          \* what was printed: [fd, msg]
    old_file, new_file

vars ==
    <<prog, argv, cmdline, pc, exitCode, exc, should_clean, revision, wait, verbose,
      file_names, idx, env, normalized_file, git_path, temp_file, tmpdir, tmpdir0,
      listing, k, fault, calls, created, unlinked, printed, old_file, new_file>>

optVars == <<should_clean, revision, wait, verbose>>
loopVars == <<file_names, idx, env, normalized_file, git_path, temp_file>>
cleanVars == <<tmpdir, tmpdir0, listing, k, fault>>
proxyVars == <<old_file, new_file>>

Init ==
    /\ \/ prog = "git-chdiff" /\ argv \in ChdiffArgvs
       \/ prog = "git-external-chdiff" /\ argv \in ProxyArgvs
    /\ cmdline = argv
    /\ pc = "main"
    /\ exitCode = -1
    /\ exc = NoExc
    /\ should_clean = FALSE
    /\ revision = DEFAULT_REVISION
    /\ wait = FALSE
    /\ verbose = FALSE
    /\ file_names = <<>>
    /\ idx = 1
    /\ env = NoEnv
    /\ normalized_file = <<>>
    /\ git_path = <<>>
    /\ temp_file = None
    /\ tmpdir = <<>>
    /\ tmpdir0 = <<>>
    /\ listing = <<>>
    /\ k = 1
    /\ fault = "none"
    /\ calls = <<>>
    /\ created = {}
    /\ unlinked = {}
    /\ printed = <<>>
    /\ old_file = <<>>
    /\ new_file = <<>>

Out(fd, msg) == [fd |-> fd, msg |-> msg]

\* an exception nothing catches: traceback on stderr, exit status 1
Crash(e) ==
    /\ pc' = "exited"
    /\ exitCode' = 1
    /\ exc' = e

\* (main called without sys.exit: the code main returns is dropped)
ExitDropped(code) ==
    /\ pc' = "exited"
    /\ exitCode' = 0
    /\ exc' = exc

\* sys.exit(code), or main returning code to sys.exit
Exit(code) ==
    /\ pc' = "exited"
    /\ exitCode' = code
    /\ exc' = exc

\* ------------------------------------------------------- git-chdiff: main
\* lines 85-121: the options are parsed; Usage ends the run with 2, --clean
\* hands over to the janitor, anything else starts the file loop
ParseArgs ==
    /\ prog = "git-chdiff" /\ pc = "main"
    /\ LET r == ParseOptions(argv)
       IN  /\ argv' = r.st.argv
           /\ should_clean' = r.st.should_clean
           /\ revision' = r.st.revision
           /\ wait' = r.st.wait
           /\ verbose' = r.st.verbose
           /\ IF r.exc.type = "Usage"
              THEN /\ printed' = printed \o <<Out("stderr", "usage"), Out("stderr", "HELP_MESSAGE")>>
                   /\ Exit(2)
                   /\ UNCHANGED file_names
              ELSE IF r.exc # NoExc
              THEN /\ Crash(r.exc)
                   /\ UNCHANGED <<printed, file_names>>
              ELSE IF r.st.should_clean
              THEN /\ pc' = "clean"
                   /\ UNCHANGED <<printed, file_names, exitCode, exc>>
              ELSE /\ pc' = "loop"
                   /\ file_names' = Tail(r.st.argv)
                   /\ UNCHANGED <<printed, exitCode, exc>>
    /\ UNCHANGED <<prog, cmdline, idx, env, normalized_file, git_path, temp_file,
                   cleanVars, calls, created, unlinked, proxyVars>>

\* lines 122-130: the next file of the loop; a path that is no file is
\* reported and skipped
NextFile ==
    /\ prog = "git-chdiff" /\ pc = "loop" /\ idx <= Len(file_names)
    /\ \E e \in Envs(idx) :
         LET nf == normpath(file_names[idx])
             trace == IF verbose THEN <<Out("stdout", "working on")>> ELSE <<>>
         IN  /\ env' = e
             /\ normalized_file' = nf
             /\ git_path' = nf
             /\ IF ~e.isfile
                THEN /\ printed' = printed \o trace \o <<Out("stdout", "is not a file")>>
                     /\ idx' = idx + 1
                     /\ pc' = "loop"
                ELSE /\ printed' = printed \o trace
                     /\ idx' = idx
                     /\ pc' = "status"
    /\ UNCHANGED <<prog, argv, cmdline, exitCode, exc, optVars, file_names, temp_file,
                   cleanVars, calls, created, unlinked, proxyVars>>

\* lines 132-162: "git status", and what its output says
GitStatus ==
    /\ prog = "git-chdiff" /\ pc = "status"
    /\ \E r \in StatusResults(normalized_file, env.tracked) :
         LET s == StatusStep(r, normalized_file)
         IN  /\ calls' = Append(calls, [cmd |-> "git status", pos |-> idx,
                                        ok |-> ~r.oserror, args |-> <<normalized_file>>])
             /\ IF s.kind = "raise"
                THEN /\ Crash(s.exc)
                     /\ UNCHANGED <<idx, git_path, printed>>
                ELSE IF s.kind = "continue"
                THEN /\ idx' = idx + 1
                     /\ pc' = "loop"
                     /\ printed' = (IF s.msg = "unchanged" /\ ~verbose THEN printed
                                    ELSE Append(printed, Out("stdout", s.msg)))
                     /\ UNCHANGED <<git_path, exitCode, exc>>
                ELSE /\ pc' = "show"
                     /\ git_path' = s.git_path
                     /\ printed' = (IF s.msg = "Execution failed"
                                    THEN Append(printed, Out("stderr", s.msg))
                                    ELSE IF verbose /\ s.msg = "git path"
                                    THEN Append(printed, Out("stdout", s.msg))
                                    ELSE printed)
                     /\ UNCHANGED <<idx, exitCode, exc>>
    /\ UNCHANGED <<prog, argv, cmdline, optVars, file_names, env, normalized_file,
                   temp_file, cleanVars, created, unlinked, proxyVars>>

\* lines 165-190: "git show revision:git_path", and the shadow file
GitShow ==
    /\ prog = "git-chdiff" /\ pc = "show"
    /\ \E r \in ShowResults(env.recorded), rand \in {<<"q">>, <<"z">>}, mk \in BOOLEAN :
         LET s == ShowStep(r)
             full == mkstemp(rand)
             path == basename(TEMP_DIRECTORY, full)
             shadow == [fd |-> "fd", path |-> full]
         IN  /\ calls' = Append(calls, [cmd |-> "git show", pos |-> idx,
                                        ok |-> ~r.oserror, args |-> <<revision, git_path>>])
             /\ IF s.kind = "raise"
                THEN /\ Crash(s.exc)
                     /\ temp_file' = None
                     /\ UNCHANGED <<idx, printed, tmpdir, created>>
                ELSE IF s.kind = "continue"
                THEN /\ idx' = idx + 1
                     /\ pc' = "loop"
                     /\ temp_file' = None
                     /\ printed' = printed \o <<Out("stdout", s.msg), Out("stdout", "first line")>>
                     /\ UNCHANGED <<exitCode, exc, tmpdir, created>>
                ELSE IF s.kind = "next" \/ ~mk
                THEN \* Popen or mkstemp raised OSError, which line 189 catches
                     /\ pc' = "chdiff"
                     /\ temp_file' = None
                     /\ printed' = Append(printed, Out("stderr", "Execution failed"))
                     /\ UNCHANGED <<idx, exitCode, exc, tmpdir, created>>
                ELSE /\ path \notin DOMAIN tmpdir
                     /\ temp_file' = shadow
                     /\ tmpdir' = [n \in DOMAIN tmpdir \cup {path} |->
                                     IF n = path THEN [isfile |-> TRUE, uid |-> ME]
                                     ELSE tmpdir[n]]
                     /\ IF s.text.ok
                        THEN /\ created' = created \cup
                                   {[pos |-> idx, path |-> full, text |-> s.text.val]}
                             /\ pc' = "chdiff"
                             /\ printed' = (IF verbose
                                            THEN Append(printed, Out("stdout", "temp file"))
                                            ELSE printed)
                             /\ UNCHANGED <<idx, exitCode, exc>>
                        ELSE /\ created' = created \cup
                                   {[pos |-> idx, path |-> full, text |-> <<>>]}
                             /\ Crash(s.text.exc)
                             /\ UNCHANGED <<idx, printed>>
    /\ UNCHANGED <<prog, argv, cmdline, optVars, file_names, env, normalized_file,
                   git_path, tmpdir0, listing, k, fault, unlinked, proxyVars>>

\* lines 193-210: the viewer, and the removal of the shadow file under --wait
Chdiff ==
    /\ prog = "git-chdiff" /\ pc = "chdiff"
    /\ \E started \in BOOLEAN, removed \in BOOLEAN :
         LET c == ChdiffCommand(wait, temp_file, normalized_file)
             name == basename(TEMP_DIRECTORY, temp_file.path)
         IN  IF ~c.ok
             THEN /\ Crash(c.exc)
                  /\ UNCHANGED <<idx, calls, tmpdir, unlinked, printed>>
             ELSE /\ calls' = Append(calls, [cmd |-> "chdiff", pos |-> idx, ok |-> started,
                                             args |-> <<c.val.wait_flag, c.val.a, c.val.b>>])
                  /\ idx' = idx + 1
                  /\ pc' = "loop"
                  /\ UNCHANGED <<exitCode, exc>>
                  /\ IF started /\ wait /\ removed /\ name \in DOMAIN tmpdir
                     THEN /\ tmpdir' = [n \in DOMAIN tmpdir \ {name} |-> tmpdir[n]]
                          /\ unlinked' = unlinked \cup {temp_file.path}
                          /\ printed' = printed
                     ELSE /\ printed' = (IF started /\ ~wait THEN printed
                                         ELSE Append(printed, Out("stderr", "Execution failed")))
                          /\ UNCHANGED <<tmpdir, unlinked>>
    /\ UNCHANGED <<prog, argv, cmdline, optVars, file_names, env, normalized_file,
                   git_path, temp_file, tmpdir0, listing, k, fault, created, proxyVars>>

\* the end of the file loop: main returns None and sys.exit(None) exits 0
MainReturn ==
    /\ prog = "git-chdiff" /\ pc = "loop" /\ idx > Len(file_names)
    /\ Exit(0)
    /\ UNCHANGED <<prog, argv, cmdline, optVars, loopVars, cleanVars, calls, created,
                   unlinked, printed, proxyVars>>

\* ------------------------------------------------------- clean_temp_files
\* lines 47-51: the caller's uid and the listing of TEMP_DIRECTORY; either
\* call may raise, and line 69 turns any exception into the result 1
CleanStart ==
    /\ prog = "git-chdiff" /\ pc = "clean"
    /\ \E f \in {"none", "getpwnam", "listdir"} :
         LET scanning == IF verbose THEN <<Out("stdout", "scanning")>> ELSE <<>>
             failed == IF verbose THEN <<Out("stderr", "Clean failed")>> ELSE <<>>
         IN  IF f # "none"
             THEN /\ fault' = f
                  /\ printed' = printed \o scanning \o failed
                  /\ Exit(1)
                  /\ UNCHANGED <<tmpdir, tmpdir0, listing, k>>
             ELSE /\ \E d \in Dirs : \E l \in Listings(d) :
                       /\ tmpdir' = d
                       /\ tmpdir0' = d
                       /\ listing' = l
                  /\ k' = 1
                  /\ pc' = "scan"
                  /\ printed' = printed \o scanning
                  /\ UNCHANGED <<fault, exitCode, exc>>
    /\ UNCHANGED <<prog, argv, cmdline, optVars, loopVars, calls, created, unlinked,
                   proxyVars>>

\* lines 52-67: one entry of the listing; os.stat and os.unlink may raise
CleanEntry ==
    /\ prog = "git-chdiff" /\ pc = "scan" /\ k <= Len(listing)
    /\ \E f \in {"none", "stat", "unlink"} :
         LET file_name == listing[k]
             e == tmpdir[file_name]
             named == e.isfile /\ startswith(Str(file_name), Str(TEMP_FILE_PREFIX), 58).val
             failed == IF verbose THEN <<Out("stderr", "Clean failed")>> ELSE <<>>
             removing == IF verbose THEN <<Out("stdout", "removing temp file")>> ELSE <<>>
         IN  IF named /\ f = "stat"
             THEN /\ fault' = f
                  /\ printed' = printed \o failed
                  /\ Exit(1)
                  /\ UNCHANGED <<tmpdir, k, unlinked>>
             ELSE IF ~ShouldRemove(file_name, e, ME)
             THEN /\ k' = k + 1
                  /\ UNCHANGED <<tmpdir, fault, unlinked, printed, pc, exitCode, exc>>
             ELSE IF f = "unlink"
             THEN /\ fault' = f
                  /\ printed' = printed \o removing \o failed
                  /\ Exit(1)
                  /\ UNCHANGED <<tmpdir, k, unlinked>>
             ELSE /\ tmpdir' = [n \in DOMAIN tmpdir \ {file_name} |-> tmpdir[n]]
                  /\ unlinked' = unlinked \cup {join_path(TEMP_DIRECTORY, file_name)}
                  /\ printed' = printed \o removing
                  /\ k' = k + 1
                  /\ UNCHANGED <<fault, pc, exitCode, exc>>
    /\ UNCHANGED <<prog, argv, cmdline, optVars, loopVars, tmpdir0, listing, calls,
                   created, proxyVars>>

\* line 68: the scan is over, the result is 0
CleanReturn ==
    /\ prog = "git-chdiff" /\ pc = "scan" /\ k > Len(listing)
    /\ Exit(0)
    /\ UNCHANGED <<prog, argv, cmdline, optVars, loopVars, cleanVars, calls, created,
                   unlinked, printed, proxyVars>>

\* ------------------------------------------------------ git-external-chdiff
\* main, line 56: the two paths, or exit status 1 when argv is too short
ProxyParse ==
    /\ prog = "git-external-chdiff" /\ pc = "main"
    /\ LET r == parse_external_diff_args(argv)
       IN  IF r.ok
           THEN /\ old_file' = r.val.old_file
                /\ new_file' = r.val.new_file
                /\ pc' = "run"
                /\ UNCHANGED <<printed, exitCode, exc>>
           ELSE /\ printed' = Append(printed, Out("stderr", "argumentos insuficientes"))
                /\ Exit(1)
                /\ UNCHANGED <<old_file, new_file>>
    /\ UNCHANGED <<prog, argv, cmdline, optVars, loopVars, cleanVars, calls, created,
                   unlinked>>

\* main, line 57: run_chdiff(old_file, new_file, wait=True, verbose=False);
\* subprocess.run raises FileNotFoundError when there is no chdiff, which is
\* caught, or another OSError (chdiff is not executable), which is not
ProxyRun ==
    /\ prog = "git-external-chdiff" /\ pc = "run"
    /\ \E result \in {"ok", "FileNotFoundError", "PermissionError"} :
         /\ calls' = Append(calls, [cmd |-> "subprocess.run", pos |-> 0,
                                    ok |-> (result = "ok"),
                                    args |-> run_chdiff_command(old_file, new_file, TRUE)])
         /\ IF result = "ok"
            THEN /\ Exit(0)
                 /\ UNCHANGED printed
            ELSE IF result = "FileNotFoundError"
            THEN /\ printed' = Append(printed, Out("stderr", "chdiff nao encontrado"))
                 /\ Exit(1)
            ELSE /\ Crash([type |-> result, line |-> 47])
                 /\ UNCHANGED printed
    /\ UNCHANGED <<prog, argv, cmdline, optVars, loopVars, cleanVars, created, unlinked,
                   proxyVars>>

Next ==
    \/ ParseArgs
    \/ NextFile
    \/ GitStatus
    \/ GitShow
    \/ Chdiff
    \/ MainReturn
    \/ CleanStart
    \/ CleanEntry
    \/ CleanReturn
    \/ ProxyParse
    \/ ProxyRun

Spec == Init /\ [][Next]_vars

\* ------------------------------------------------------------------ claims
HasPrefix(n) ==
    /\ Len(n) >= 10
    /\ SubSeq(n, 1, 10) = <<"g", "i", "t", "-", "c", "h", "d", "i", "f", "f">>

IsClean == prog = "git-chdiff" /\ should_clean
IsProxy == prog = "git-external-chdiff"
InLoop == prog = "git-chdiff" /\ file_names # <<>>

\* C1: the janitor removes an entry of the temp directory only if it is a
\* regular file, its name starts with 'git-chdiff' and its owner is the
\* caller; nothing else, and no directory, is ever removed.
JanitorRemovesOnlyOwnTempFiles ==
    IsClean =>
        \A p \in unlinked : \E n \in DOMAIN tmpdir0 :
            /\ p = join_path(TEMP_DIRECTORY, n)
            /\ tmpdir0[n].isfile
            /\ HasPrefix(n)
            /\ tmpdir0[n].uid = ME

\* a janitor run that removed a file and left another user's file of the
\* right name in place
JanitorRemovedAndSpared ==
    /\ IsClean /\ pc = "exited" /\ exitCode = 0
    /\ unlinked # {}
    /\ \E n \in DOMAIN tmpdir : tmpdir[n].isfile /\ HasPrefix(n) /\ tmpdir[n].uid # ME

\* C3: for a tracked existing file whose content the repository records at
\* the revision, once the command is done with the file there is a shadow
\* file holding exactly that content.
ShadowHoldsRecordedContent ==
    (/\ prog = "git-chdiff"
     /\ env.isfile /\ env.tracked /\ env.recorded.exists
     /\ (idx > env.pos \/ pc = "exited"))
    => \E c \in created : c.pos = env.pos /\ c.text = Concat(readlines(env.recorded.out), 1)

\* C4: an existing regular file that is untracked is skipped: the command
\* goes on without a temporary file and without a viewer for it.
UntrackedFileSkipped ==
    (/\ prog = "git-chdiff"
     /\ env.isfile /\ ~env.tracked
     /\ (idx > env.pos \/ pc = "exited"))
    => /\ exc = NoExc
       /\ \A c \in created : c.pos # env.pos
       /\ \A i \in DOMAIN calls : ~(calls[i].cmd = "chdiff" /\ calls[i].pos = env.pos)

\* C5: whatever fails for one file, the files after it are still processed:
\* the run ends with the whole list gone through and no exception uncaught.
EveryFileProcessed ==
    (InLoop /\ pc = "exited") => (exc = NoExc /\ idx > Len(file_names))

\* C6: the proxy, given at least 6 arguments, starts the viewer exactly once,
\* with --wait, argv[2] and argv[5], and removes nothing.
ProxyLaunchesViewerOnce ==
    (IsProxy /\ Len(argv) >= 6 /\ pc = "exited") =>
        /\ Len(calls) = 1
        /\ calls[1].args = <<"chdiff", "--wait", argv[3], argv[6]>>
        /\ unlinked = {}

\* a proxy run over a full argument vector whose entries differ
ProxyRanOnSevenArgs ==
    /\ IsProxy /\ pc = "exited" /\ exitCode = 0
    /\ Len(argv) = 7 /\ argv[3] # argv[6] /\ argv[2] # argv[3] /\ argv[5] # argv[6]
    /\ Len(calls) = 1 /\ calls[1].ok

\* C7: a delete error on one file does not fail the janitor's run: the scan
\* goes on to the end of the listing and the result is 0.
DeleteErrorDoesNotStopScan ==
    (IsClean /\ pc = "exited" /\ fault = "unlink") =>
        (exitCode = 0 /\ k > Len(listing))

ParsedOptions == Getopt(<<>>, Tail(cmdline))
Asked(options) ==
    ParsedOptions.ok /\
    \E i \in DOMAIN ParsedOptions.opts : ParsedOptions.opts[i].option \in options
NothingDone ==
    /\ calls = <<>> /\ created = {} /\ unlinked = {} /\ listing = <<>> /\ fault = "none"
    /\ \E i \in DOMAIN printed : printed[i] = Out("stderr", "HELP_MESSAGE")

NoShadowFileIsEverMade ==
    prog = "git-chdiff" =>
        /\ created = {}
        /\ temp_file = None
        /\ \A i \in DOMAIN calls : calls[i].cmd # "chdiff"

\* C10: when a subprocess cannot be started for a file, no later step of that
\* file runs: no further subprocess is started for the same position.
LaunchFailureAbortsFile ==
    prog = "git-chdiff" =>
        \A i, j \in DOMAIN calls :
            (i < j /\ ~calls[i].ok) => calls[i].pos # calls[j].pos
====
